---- MODULE Spec2Model ----
(***************************************************************************)
(* ChillMCP state engine: the immutable State snapshot, its transition     *)
(* functions, and StateManager, which serialises caller operations         *)
(* (take_break, get_state, reset, stop) and two background loops behind    *)
(* one threading.Lock.                                                     *)
(***************************************************************************)
EXTENDS Integers, Sequences, FiniteSets, TLC

(* ---------------- program constants (src/src/config.py) ---------------- *)
STRESS_MIN == 0
STRESS_MAX == 100
BOSS_ALERT_MIN == 0
BOSS_ALERT_MAX == 5
STRESS_INCREASE_INTERVAL == 60
BOSS_ALERT_DELAY == 20

(* ---------------- bounds of the model ---------------------------------- *)
\* Spec: invocations of take_break, and of get_state and reset together, in
\* one run, and the reading of the clock past which the run is not followed
MaxBreaks == 6
MaxOthers == 1
MaxTime == 80
\* SpecMix: the same three bounds
MixBreaks == 2
MixOthers == 1
MixTime == 60
\* SpecFair: the same three bounds; there the clock's reading stays at FairTime
\* once it is reached, and time passes on
FairBreaks == 1
FairOthers == 1
FairTime == 0
\* SpecReset: the same three bounds
ResetBreaks == 5
ResetOthers == 2
ResetTime == 60
\* SpecNeg: the same three bounds
NegBreaks == 2
NegOthers == 1
NegTime == 60
\* SpecProb: the same three bounds
ProbBreaks == 6
ProbOthers == 1
ProbTime == 60
\* SpecHold: invocations of take_break, invocations of reset, and the reading
\* of the clock past which the run is not followed
HoldBreaks == 6
HoldOthers == 1
HoldTime == 60
\* SpecDir: the same three bounds
DirBreaks == 3
DirOthers == 1
DirTime == 60
\* SpecConfig: invocations of take_break, and the reading of the clock past
\* which the run is not followed
ConfigBreaks == 1
ConfigTime == 3
\* SpecStall: invocations of take_break, and the reading of the clock past
\* which the run is not followed
StallBreaks == 6
StallTime == 60
\* SpecLoops: the reading of the clock past which the run is not followed
LoopTime == 780
\* the ticks of the stress loop that are counted
TickCap == 12

\* caller threads and the two daemon threads
Callers == {"c1", "c2"}
StressThread == "StressAutoIncrement"
BossThread == "BossAlertAutoDecrement"
Loops == {StressThread, BossThread}
Threads == Callers \cup Loops

\* Spec: the stress_decrease arguments the callers pass, and the values of
\* --boss_alertness and --boss_alertness_cooldown on the command line
Amounts == {40}
AlertnessInputs == {130}
CooldownInputs == {60}
\* SpecMix: the same three sets of inputs
MixAmounts == {0, 20, 40}
MixAlertnessInputs == {-10, 50}
MixCooldownInputs == {60}
\* SpecNeg: the stress_decrease arguments, one of them negative
NegAmounts == {-60, 40}
\* SpecPure: the decrease arguments the transition functions are applied to
PureAmounts == {-60, -1, 0, 1, 60, 150}
\* SpecLoops: the value of --boss_alertness_cooldown, and the counters of the
\* snapshot at which the callers have gone quiet
LoopCooldownInputs == {45}
LoopSnapshots == {<<50, 0>>, <<90, 3>>}
\* SpecProb: the values of --boss_alertness, the two ends of its range
ProbAlertnessInputs == {0, 100}
\* SpecHold: the value of --boss_alertness, even odds
HoldAlertnessInputs == {50}
\* SpecConfig: the values of --boss_alertness and --boss_alertness_cooldown,
\* within and on both sides of the ranges
ConfigAlertnessInputs == -3..103
ConfigCooldownInputs == {-2, 0, 1, 2, 300}
\* SpecStall: the value of --boss_alertness_cooldown, half the threshold delay
StallCooldownInputs == {10}
\* SpecFair: the same three sets of inputs
FairAmounts == {40}
FairAlertnessInputs == {130}
FairCooldownInputs == {60}
\* the integers random.randint(1, 100) is taken to return: both ends of the
\* range and the two values around the default probability
Draws == {1, 50, 51, 100}

NoThread == "none"

Max(a, b) == IF a >= b THEN a ELSE b
Min(a, b) == IF a <= b THEN a ELSE b
SetMin(S) == CHOOSE x \in S : \A y \in S : x <= y

(* ---------------- State and its transition functions ------------------- *)
State(s, b, t) ==
    [stress_level |-> s, boss_alert_level |-> b, last_activity_time |-> t]

\* the counters of snapshot s are within their documented bounds
InBounds(s) ==
    /\ STRESS_MIN <= s.stress_level /\ s.stress_level <= STRESS_MAX
    /\ BOSS_ALERT_MIN <= s.boss_alert_level /\ s.boss_alert_level <= BOSS_ALERT_MAX

\* placeholder of a local that holds no State
NoState == State(-1, -1, -1)
\* placeholder of a tuple not read yet
NoResult == <<-1, -1>>
\* no value was handed back by the step just taken
NoReturn == [op |-> "none", by |-> NoThread, value |-> NoResult]

\* with_stress_decrease that does not copy the alert level
with_stress_decrease_dropping_alert(self, decrease, time) ==
    State(Max(STRESS_MIN, self.stress_level - decrease), BOSS_ALERT_MIN, time)

\* with_stress_decrease without the floor at STRESS_MIN
with_stress_decrease_unclamped(self, decrease, time) ==
    State(self.stress_level - decrease, self.boss_alert_level, time)

with_stress_decrease(self, decrease, time) ==
    State(Max(STRESS_MIN, self.stress_level - decrease),
          self.boss_alert_level,
          time)

\* with_boss_increase that starts again from BOSS_ALERT_MIN past the cap
with_boss_increase_wrapping(self) ==
    State(self.stress_level,
          IF self.boss_alert_level = BOSS_ALERT_MAX
            THEN BOSS_ALERT_MIN
            ELSE self.boss_alert_level + 1,
          self.last_activity_time)

\* with_boss_increase without the cap at BOSS_ALERT_MAX
with_boss_increase_unclamped(self) ==
    State(self.stress_level, self.boss_alert_level + 1, self.last_activity_time)

with_boss_increase(self) ==
    State(self.stress_level,
          Min(BOSS_ALERT_MAX, self.boss_alert_level + 1),
          self.last_activity_time)

\* with_boss_decrease that also moves the timestamp
with_boss_decrease_stamped(self) ==
    State(self.stress_level,
          Max(BOSS_ALERT_MIN, self.boss_alert_level - 1),
          self.last_activity_time + 1)

with_boss_decrease(self) ==
    State(self.stress_level,
          Max(BOSS_ALERT_MIN, self.boss_alert_level - 1),
          self.last_activity_time)

\* with_stress_increase without the cap at STRESS_MAX
with_stress_increase_unclamped(self) ==
    State(self.stress_level + 1, self.boss_alert_level, self.last_activity_time)

with_stress_increase(self) ==
    State(Min(STRESS_MAX, self.stress_level + 1),
          self.boss_alert_level,
          self.last_activity_time)

\* the comparison made strict
should_boss_alert_increase_strict(draw, alertness_probability) ==
    draw < alertness_probability

\* random.randint(1, 100) <= alertness_probability, for the integer drawn
should_boss_alert_increase(draw, alertness_probability) ==
    draw <= alertness_probability

(* ---------------- Config ----------------------------------------------- *)
\* _validate_alertness without the floor at 0
validate_alertness_no_floor(value) == Min(100, value)

validate_alertness(value) == Max(0, Min(100, value))
validate_cooldown(value) == Max(1, value)

VARIABLES
    state,                   \* StateManager._state
    lock,                    \* StateManager._lock: the thread holding it, or NoThread
    running,                 \* StateManager._running
    boss_alertness,          \* config.boss_alertness
    boss_alertness_cooldown, \* config.boss_alertness_cooldown
    args,                    \* the values parse_args() returned to Config.__init__
    pc,                      \* the position of every thread
    stress_decrease,         \* take_break's argument, per caller
    boss_increase,           \* take_break's local, per caller
    new_state,               \* take_break's local, per caller
    result,                  \* the tuple get_state is building, per caller
    timer,                   \* time left of the thread's time.sleep
    now,                     \* the reading of time.time()
    budget,                  \* invocations the callers may still make, and the
                             \* last reading of the clock the run is followed to
    returned,                \* history: the value handed back by the step just taken
    at_acquire,              \* history: _state when the caller got the lock
    elapsed,                 \* history: time passed since the caller got the lock
    base,                    \* history: stress_level after the last tick or reset
    decreased,               \* history: sum of the amounts installed since then
    seq_state,               \* history: _state of the one-at-a-time execution
    acq_order,               \* history: lock holders in acquisition order
    stop_sleepers,           \* history: threads that were asleep when stop() ran
    reset_fresh,             \* history: no take_break, reset or loop has taken the
                             \* lock since a reset released it
    quiet,                   \* history: the stress level at construction and the
                             \* ticks of the stress loop since, up to TickCap;
                             \* -1 ticks once a take_break or a reset has installed
    stall,                   \* history: time the loop waited for the lock after
                             \* its last sleep, up to BOSS_ALERT_DELAY
    at_call                  \* history: the caller invoked take_break while the
                             \* alert level was 5 and has not passed line 221 yet

vars == <<state, lock, running, boss_alertness, boss_alertness_cooldown, args, pc,
          stress_decrease, boss_increase, new_state, result, timer, now, budget,
          returned, at_acquire, elapsed, base, decreased, seq_state, acq_order,
          stop_sleepers, reset_fresh, quiet, stall, at_call>>

config == <<boss_alertness, boss_alertness_cooldown, args>>
locals == <<stress_decrease, boss_increase, new_state, result>>
history == <<at_acquire, elapsed, base, decreased, seq_state, acq_order,
             stop_sleepers, reset_fresh, quiet, stall, at_call>>

(* ---------------- construction ----------------------------------------- *)
\* Config.__init__ with the two command-line values
ConfigInit(alertness, cooldown) ==
    /\ args = [boss_alertness |-> alertness, boss_alertness_cooldown |-> cooldown]
    /\ boss_alertness = validate_alertness(alertness)
    /\ boss_alertness_cooldown = validate_cooldown(cooldown)

\* StateManager.__init__: the initial State, the lock, the flag, both threads
\* started and about to test the flag
ManagerInit ==
    /\ state = State(50, 0, 0)
    /\ lock = NoThread
    /\ running = TRUE
    /\ pc = [t \in Threads |-> IF t \in Loops THEN "test" ELSE "idle"]
    /\ stress_decrease = [c \in Callers |-> 0]
    /\ boss_increase = [c \in Callers |-> FALSE]
    /\ new_state = [c \in Callers |-> NoState]
    /\ result = [c \in Callers |-> NoResult]
    /\ timer = [t \in Threads |-> 0]
    /\ now = 0

HistoryInit ==
    /\ returned = NoReturn
    /\ at_acquire = [c \in Callers |-> NoState]
    /\ elapsed = [c \in Callers |-> 0]
    /\ base = 50
    /\ decreased = 0
    /\ seq_state = State(50, 0, 0)
    /\ acq_order = <<>>
    /\ stop_sleepers = {}
    /\ reset_fresh = FALSE
    /\ quiet = [from |-> 50, ticks |-> 0]
    /\ stall = [t \in Loops |-> 0]
    /\ at_call = [c \in Callers |-> FALSE]

Budget(breaks, others, time, polling) ==
    [take_break |-> breaks, other |-> others, time |-> time, polling |-> polling]

Init ==
    /\ \E a \in AlertnessInputs, cd \in CooldownInputs : ConfigInit(a, cd)
    /\ ManagerInit
    /\ HistoryInit
    /\ budget = Budget(MaxBreaks, MaxOthers, MaxTime, FALSE)

InitFair ==
    /\ \E a \in FairAlertnessInputs, cd \in FairCooldownInputs : ConfigInit(a, cd)
    /\ ManagerInit
    /\ HistoryInit
    /\ budget = Budget(FairBreaks, FairOthers, FairTime, TRUE)

InitReset ==
    /\ \E a \in AlertnessInputs, cd \in CooldownInputs : ConfigInit(a, cd)
    /\ ManagerInit
    /\ HistoryInit
    /\ budget = Budget(ResetBreaks, ResetOthers, ResetTime, FALSE)

InitNeg ==
    /\ \E a \in MixAlertnessInputs, cd \in MixCooldownInputs : ConfigInit(a, cd)
    /\ ManagerInit
    /\ HistoryInit
    /\ budget = Budget(NegBreaks, NegOthers, NegTime, FALSE)

InitProb ==
    /\ \E a \in ProbAlertnessInputs, cd \in CooldownInputs : ConfigInit(a, cd)
    /\ ManagerInit
    /\ HistoryInit
    /\ budget = Budget(ProbBreaks, ProbOthers, ProbTime, FALSE)

InitHold ==
    /\ \E a \in HoldAlertnessInputs, cd \in CooldownInputs : ConfigInit(a, cd)
    /\ ManagerInit
    /\ HistoryInit
    /\ budget = Budget(HoldBreaks, HoldOthers, HoldTime, FALSE)

InitDir ==
    /\ \E a \in HoldAlertnessInputs, cd \in CooldownInputs : ConfigInit(a, cd)
    /\ ManagerInit
    /\ HistoryInit
    /\ budget = Budget(DirBreaks, DirOthers, DirTime, FALSE)

InitConfig ==
    /\ \E a \in ConfigAlertnessInputs, cd \in ConfigCooldownInputs : ConfigInit(a, cd)
    /\ ManagerInit
    /\ HistoryInit
    /\ budget = Budget(ConfigBreaks, 0, ConfigTime, FALSE)

InitStall ==
    /\ \E a \in AlertnessInputs, cd \in StallCooldownInputs : ConfigInit(a, cd)
    /\ ManagerInit
    /\ HistoryInit
    /\ budget = Budget(StallBreaks, 0, StallTime, FALSE)

InitMix ==
    /\ \E a \in MixAlertnessInputs, cd \in MixCooldownInputs : ConfigInit(a, cd)
    /\ ManagerInit
    /\ HistoryInit
    /\ budget = Budget(MixBreaks, MixOthers, MixTime, FALSE)

\* a StateManager at rest whose snapshot is any one within the bounds
InitPure ==
    /\ \E a \in AlertnessInputs, cd \in CooldownInputs : ConfigInit(a, cd)
    /\ \E s \in STRESS_MIN..STRESS_MAX, b \in BOSS_ALERT_MIN..BOSS_ALERT_MAX :
         state = State(s, b, 0)
    /\ lock = NoThread
    /\ running = TRUE
    /\ pc = [t \in Threads |-> IF t \in Loops THEN "test" ELSE "idle"]
    /\ stress_decrease = [c \in Callers |-> 0]
    /\ boss_increase = [c \in Callers |-> FALSE]
    /\ new_state = [c \in Callers |-> NoState]
    /\ result = [c \in Callers |-> NoResult]
    /\ timer = [t \in Threads |-> 0]
    /\ now = 0
    /\ HistoryInit
    /\ budget = Budget(0, 0, 0, FALSE)

\* a StateManager whose callers are quiet, taken up when both loops are about
\* to test the flag and the snapshot is one of LoopSnapshots
InitLoops ==
    /\ \E a \in AlertnessInputs, cd \in LoopCooldownInputs : ConfigInit(a, cd)
    /\ \E sn \in LoopSnapshots :
         /\ state = State(sn[1], sn[2], 0)
         /\ seq_state = State(sn[1], sn[2], 0)
         /\ base = sn[1]
         /\ quiet = [from |-> sn[1], ticks |-> 0]
    /\ lock = NoThread
    /\ running = TRUE
    /\ pc = [t \in Threads |-> IF t \in Loops THEN "test" ELSE "idle"]
    /\ stress_decrease = [c \in Callers |-> 0]
    /\ boss_increase = [c \in Callers |-> FALSE]
    /\ new_state = [c \in Callers |-> NoState]
    /\ result = [c \in Callers |-> NoResult]
    /\ timer = [t \in Threads |-> 0]
    /\ now = 0
    /\ returned = NoReturn
    /\ at_acquire = [c \in Callers |-> NoState]
    /\ elapsed = [c \in Callers |-> 0]
    /\ decreased = 0
    /\ acq_order = <<>>
    /\ stop_sleepers = {}
    /\ reset_fresh = FALSE
    /\ stall = [t \in Loops |-> 0]
    /\ at_call = [c \in Callers |-> FALSE]
    /\ budget = Budget(0, 0, LoopTime, FALSE)

(* ---------------- the lock --------------------------------------------- *)
\* threading.Lock.acquire (entering "with self._lock") by thread t
Acquire(t) ==
    /\ lock = NoThread
    /\ lock' = t
    /\ acq_order' = Append(acq_order, t)
    /\ reset_fresh' = (reset_fresh /\ pc[t] = "gs_acquire")

\* threading.Lock.release (leaving "with self._lock") by thread t
Release(t) ==
    /\ lock' = NoThread
    /\ acq_order' = SelectSeq(acq_order, LAMBDA x : x # t)

\* a tick or a reset starts a new window of the decrease bookkeeping
NewWindow(s) ==
    /\ base' = s.stress_level
    /\ decreased' = 0

(* ---------------- StateManager.take_break ------------------------------ *)
\* a caller invokes take_break(amount)
TakeBreakCall(c, amount) ==
    /\ pc[c] = "idle"
    /\ budget.take_break > 0
    /\ budget' = [budget EXCEPT !.take_break = @ - 1]
    /\ pc' = [pc EXCEPT ![c] = "tb_acquire"]
    /\ stress_decrease' = [stress_decrease EXCEPT ![c] = amount]
    /\ returned' = NoReturn
    /\ at_call' = [at_call EXCEPT
                     ![c] = (state.boss_alert_level = BOSS_ALERT_MAX)]
    /\ UNCHANGED <<state, lock, running, config, boss_increase, new_state,
                   result, timer, now, at_acquire, elapsed, base, decreased,
                   seq_state, acq_order, stop_sleepers, reset_fresh, quiet,
                   stall>>

\* take_break entering its block without waiting for the lock
TbAcquireNoLock(c) ==
    /\ pc[c] = "tb_acquire"
    /\ lock' = c
    /\ acq_order' = Append(acq_order, c)
    /\ reset_fresh' = (reset_fresh /\ pc[c] = "gs_acquire")
    /\ pc' = [pc EXCEPT ![c] = "tb_check"]
    /\ at_acquire' = [at_acquire EXCEPT ![c] = state]
    /\ elapsed' = [elapsed EXCEPT ![c] = 0]
    /\ returned' = NoReturn
    /\ UNCHANGED <<state, running, config, locals, timer, now, budget,
                   base, decreased, seq_state, stop_sleepers, quiet, stall, at_call>>

\* line 219: with self._lock
TbAcquire(c) ==
    /\ pc[c] = "tb_acquire"
    /\ Acquire(c)
    /\ pc' = [pc EXCEPT ![c] = "tb_check"]
    /\ at_acquire' = [at_acquire EXCEPT ![c] = state]
    /\ elapsed' = [elapsed EXCEPT ![c] = 0]
    /\ returned' = NoReturn
    /\ UNCHANGED <<state, running, config, locals, timer, now, budget,
                   base, decreased, seq_state, stop_sleepers, quiet, stall, at_call>>

\* take_break deciding the sleep on the alert level an escalation would leave
TbCheckOnNewState(c) ==
    /\ pc[c] = "tb_check"
    /\ timer' = [timer EXCEPT
                   ![c] = IF with_boss_increase(state).boss_alert_level
                             = BOSS_ALERT_MAX
                            THEN BOSS_ALERT_DELAY
                            ELSE 0]
    /\ pc' = [pc EXCEPT ![c] = "tb_compute"]
    /\ returned' = NoReturn
    /\ UNCHANGED <<state, lock, running, config, locals, now, budget, history>>

\* take_break going on without the sleep
TbCheckNoSleep(c) ==
    /\ pc[c] = "tb_check"
    /\ timer' = [timer EXCEPT ![c] = 0]
    /\ pc' = [pc EXCEPT ![c] = "tb_compute"]
    /\ returned' = NoReturn
    /\ UNCHANGED <<state, lock, running, config, locals, now, budget, history>>

\* take_break sleeping whatever the alert level
TbCheckAlwaysSleep(c) ==
    /\ pc[c] = "tb_check"
    /\ timer' = [timer EXCEPT ![c] = BOSS_ALERT_DELAY]
    /\ pc' = [pc EXCEPT ![c] = "tb_compute"]
    /\ returned' = NoReturn
    /\ UNCHANGED <<state, lock, running, config, locals, now, budget, history>>

\* lines 221-222: if self._state.boss_alert_level == BOSS_ALERT_MAX:
\* time.sleep(BOSS_ALERT_DELAY) starts
TbCheck(c) ==
    /\ pc[c] = "tb_check"
    /\ timer' = [timer EXCEPT ![c] = IF state.boss_alert_level = BOSS_ALERT_MAX
                                       THEN BOSS_ALERT_DELAY
                                       ELSE 0]
    /\ pc' = [pc EXCEPT ![c] = "tb_compute"]
    /\ returned' = NoReturn
    /\ UNCHANGED <<state, lock, running, config, locals, now, budget, history>>

\* lines 225-232, once the sleep (if any) has returned:
\* boss_increase = should_boss_alert_increase(config.boss_alertness);
\* new_state = self._state.with_stress_decrease(stress_decrease);
\* if boss_increase: new_state = new_state.with_boss_increase()
TbCompute(c) ==
    /\ pc[c] = "tb_compute"
    /\ timer[c] = 0
    /\ \E draw \in Draws :
         LET increase == should_boss_alert_increase(draw, boss_alertness)
             lowered == with_stress_decrease(state, stress_decrease[c], now)
         IN /\ boss_increase' = [boss_increase EXCEPT ![c] = increase]
            /\ new_state' = [new_state EXCEPT
                               ![c] = IF increase
                                        THEN with_boss_increase(lowered)
                                        ELSE lowered]
    /\ pc' = [pc EXCEPT ![c] = "tb_install"]
    /\ returned' = NoReturn
    /\ at_call' = [at_call EXCEPT ![c] = FALSE]
    /\ UNCHANGED <<state, lock, running, config, stress_decrease, result, timer,
                   now, budget, at_acquire, elapsed, base, decreased,
                   seq_state, acq_order, stop_sleepers, reset_fresh, quiet,
                   stall>>

\* line 235: self._state = new_state
TbInstall(c) ==
    /\ pc[c] = "tb_install"
    /\ state' = new_state[c]
    /\ pc' = [pc EXCEPT ![c] = "tb_return"]
    /\ decreased' = Min(STRESS_MAX, decreased + stress_decrease[c])
    /\ returned' = NoReturn
    /\ UNCHANGED <<lock, running, config, locals, timer, now, budget,
                   at_acquire, elapsed, base, seq_state, acq_order,
                   stop_sleepers, reset_fresh, stall, at_call>>
    /\ quiet' = [quiet EXCEPT !.ticks = -1]

\* the effect of one whole take_break on the one-at-a-time execution
SeqTakeBreak(s, amount, increase, time) ==
    IF increase
      THEN with_boss_increase(with_stress_decrease(s, amount, time))
      ELSE with_stress_decrease(s, amount, time)

\* take_break returning with the lock still held
TbReturnNoRelease(c) ==
    /\ pc[c] = "tb_return"
    /\ returned' = [op |-> "take_break", by |-> c,
                    value |-> <<state.stress_level, state.boss_alert_level>>]
    /\ pc' = [pc EXCEPT ![c] = "idle"]
    /\ stress_decrease' = [stress_decrease EXCEPT ![c] = 0]
    /\ boss_increase' = [boss_increase EXCEPT ![c] = FALSE]
    /\ new_state' = [new_state EXCEPT ![c] = NoState]
    /\ at_acquire' = [at_acquire EXCEPT ![c] = NoState]
    /\ elapsed' = [elapsed EXCEPT ![c] = 0]
    /\ seq_state' = SeqTakeBreak(seq_state, stress_decrease[c], boss_increase[c],
                                 new_state[c].last_activity_time)
    /\ UNCHANGED <<state, lock, running, config, result, timer, now, budget,
                   base, decreased, acq_order, stop_sleepers, reset_fresh,
                   quiet, stall, at_call>>

\* line 238: return (self._state.stress_level, self._state.boss_alert_level),
\* and the lock is released on the way out
TbReturn(c) ==
    /\ pc[c] = "tb_return"
    /\ returned' = [op |-> "take_break", by |-> c,
                    value |-> <<state.stress_level, state.boss_alert_level>>]
    /\ Release(c)
    /\ pc' = [pc EXCEPT ![c] = "idle"]
    /\ stress_decrease' = [stress_decrease EXCEPT ![c] = 0]
    /\ boss_increase' = [boss_increase EXCEPT ![c] = FALSE]
    /\ new_state' = [new_state EXCEPT ![c] = NoState]
    /\ at_acquire' = [at_acquire EXCEPT ![c] = NoState]
    /\ elapsed' = [elapsed EXCEPT ![c] = 0]
    /\ seq_state' = SeqTakeBreak(seq_state, stress_decrease[c], boss_increase[c],
                                 new_state[c].last_activity_time)
    /\ UNCHANGED <<state, running, config, result, timer, now, budget, base,
                   decreased, stop_sleepers, reset_fresh, quiet, stall, at_call>>

(* ---------------- StateManager.get_state ------------------------------- *)
\* a caller invokes get_state()
GetStateCall(c) ==
    /\ pc[c] = "idle"
    \* budget.polling: get_state may be called without end
    /\ budget.polling \/ budget.other > 0
    /\ budget' = IF budget.polling THEN budget
                                   ELSE [budget EXCEPT !.other = @ - 1]
    /\ pc' = [pc EXCEPT ![c] = "gs_acquire"]
    /\ returned' = NoReturn
    /\ UNCHANGED <<state, lock, running, config, locals, timer, now, history>>

\* get_state entering its block without waiting for the lock
GsAcquireNoLock(c) ==
    /\ pc[c] = "gs_acquire"
    /\ lock' = c
    /\ acq_order' = Append(acq_order, c)
    /\ reset_fresh' = (reset_fresh /\ pc[c] = "gs_acquire")
    /\ pc' = [pc EXCEPT ![c] = "gs_stress"]
    /\ returned' = NoReturn
    /\ UNCHANGED <<state, running, config, locals, timer, now, budget,
                   at_acquire, elapsed, base, decreased, seq_state,
                   stop_sleepers, quiet, stall, at_call>>

\* line 246: with self._lock
GsAcquire(c) ==
    /\ pc[c] = "gs_acquire"
    /\ Acquire(c)
    /\ pc' = [pc EXCEPT ![c] = "gs_stress"]
    /\ returned' = NoReturn
    /\ UNCHANGED <<state, running, config, locals, timer, now, budget,
                   at_acquire, elapsed, base, decreased, seq_state,
                   stop_sleepers, quiet, stall, at_call>>

\* line 247, first element of the tuple: self._state.stress_level
GsReadStress(c) ==
    /\ pc[c] = "gs_stress"
    /\ result' = [result EXCEPT ![c] = <<state.stress_level, -1>>]
    /\ pc' = [pc EXCEPT ![c] = "gs_alert"]
    /\ returned' = NoReturn
    /\ UNCHANGED <<state, lock, running, config, stress_decrease, boss_increase,
                   new_state, timer, now, budget, history>>

\* get_state recording the read as an activity
GsReturnTouch(c) ==
    /\ pc[c] = "gs_alert"
    /\ returned' = [op |-> "get_state", by |-> c,
                    value |-> <<result[c][1], state.boss_alert_level>>]
    /\ result' = [result EXCEPT ![c] = NoResult]
    /\ state' = [state EXCEPT !.last_activity_time = now]
    /\ seq_state' = [seq_state EXCEPT !.last_activity_time = now]
    /\ Release(c)
    /\ pc' = [pc EXCEPT ![c] = "idle"]
    /\ UNCHANGED <<running, config, stress_decrease, boss_increase,
                   new_state, timer, now, budget, at_acquire, elapsed, base,
                   decreased, stop_sleepers, reset_fresh, quiet, stall, at_call>>

\* line 247, second element: self._state.boss_alert_level; the tuple is
\* returned and the lock released on the way out
GsReturn(c) ==
    /\ pc[c] = "gs_alert"
    /\ returned' = [op |-> "get_state", by |-> c,
                    value |-> <<result[c][1], state.boss_alert_level>>]
    /\ result' = [result EXCEPT ![c] = NoResult]
    /\ Release(c)
    /\ pc' = [pc EXCEPT ![c] = "idle"]
    /\ UNCHANGED <<state, running, config, stress_decrease, boss_increase,
                   new_state, timer, now, budget, at_acquire, elapsed, base,
                   decreased, seq_state, stop_sleepers, reset_fresh, quiet, stall, at_call>>

(* ---------------- StateManager.reset ----------------------------------- *)
\* a caller invokes reset()
ResetCall(c) ==
    /\ pc[c] = "idle"
    /\ budget.other > 0
    /\ budget' = [budget EXCEPT !.other = @ - 1]
    /\ pc' = [pc EXCEPT ![c] = "rs_acquire"]
    /\ returned' = NoReturn
    /\ UNCHANGED <<state, lock, running, config, locals, timer, now, history>>

\* reset entering its block without waiting for the lock
RsAcquireNoLock(c) ==
    /\ pc[c] = "rs_acquire"
    /\ lock' = c
    /\ acq_order' = Append(acq_order, c)
    /\ reset_fresh' = (reset_fresh /\ pc[c] = "gs_acquire")
    /\ pc' = [pc EXCEPT ![c] = "rs_install"]
    /\ returned' = NoReturn
    /\ UNCHANGED <<state, running, config, locals, timer, now, budget,
                   at_acquire, elapsed, base, decreased, seq_state,
                   stop_sleepers, quiet, stall, at_call>>

\* line 257: with self._lock
RsAcquire(c) ==
    /\ pc[c] = "rs_acquire"
    /\ Acquire(c)
    /\ pc' = [pc EXCEPT ![c] = "rs_install"]
    /\ returned' = NoReturn
    /\ UNCHANGED <<state, running, config, locals, timer, now, budget,
                   at_acquire, elapsed, base, decreased, seq_state,
                   stop_sleepers, quiet, stall, at_call>>

\* reset that restores the stress level only
RsInstallStressOnly(c) ==
    /\ pc[c] = "rs_install"
    /\ state' = State(50, state.boss_alert_level, now)
    /\ Release(c)
    /\ pc' = [pc EXCEPT ![c] = "idle"]
    /\ NewWindow(state')
    /\ seq_state' = State(50, 0, now)
    /\ returned' = [op |-> "reset", by |-> c, value |-> NoResult]
    /\ reset_fresh' = TRUE
    /\ UNCHANGED <<running, config, locals, timer, now, budget, at_acquire,
                   elapsed, stop_sleepers, stall, at_call>>
    /\ quiet' = [quiet EXCEPT !.ticks = -1]

\* lines 258-262: self._state = State(50, 0, time.time()), and the lock is
\* released on the way out
RsInstall(c) ==
    /\ pc[c] = "rs_install"
    /\ state' = State(50, 0, now)
    /\ Release(c)
    /\ pc' = [pc EXCEPT ![c] = "idle"]
    /\ NewWindow(state')
    /\ seq_state' = State(50, 0, now)
    /\ returned' = [op |-> "reset", by |-> c, value |-> NoResult]
    /\ reset_fresh' = TRUE
    /\ UNCHANGED <<running, config, locals, timer, now, budget, at_acquire,
                   elapsed, stop_sleepers, stall, at_call>>
    /\ quiet' = [quiet EXCEPT !.ticks = -1]

(* ---------------- StateManager.stop ------------------------------------ *)
\* stop() that also ends every time.sleep in progress
StopInterrupt(c) ==
    /\ pc[c] = "idle"
    /\ running' = FALSE
    /\ timer' = [t \in Threads |-> 0]
    /\ stop_sleepers' = IF running
                          THEN {t \in Threads : timer[t] > 0}
                          ELSE stop_sleepers
    /\ returned' = NoReturn
    /\ UNCHANGED <<state, lock, config, pc, locals, now, budget,
                   at_acquire, elapsed, base, decreased, seq_state, acq_order,
                   reset_fresh, quiet, stall, at_call>>

\* line 266: self._running = False (no lock is taken)
Stop(c) ==
    /\ pc[c] = "idle"
    /\ running' = FALSE
    /\ stop_sleepers' = IF running
                          THEN {t \in Threads : timer[t] > 0}
                          ELSE stop_sleepers
    /\ returned' = NoReturn
    /\ UNCHANGED <<state, lock, config, pc, locals, timer, now, budget,
                   at_acquire, elapsed, base, decreased, seq_state, acq_order,
                   reset_fresh, quiet, stall, at_call>>

(* ---------------- the two background loops ----------------------------- *)
\* the sleep of each loop: lines 182 and 196
Interval(t) ==
    IF t = StressThread THEN STRESS_INCREASE_INTERVAL ELSE boss_alertness_cooldown

\* the decay step of each loop: lines 184 and 198
Decay(t, s) ==
    IF t = StressThread THEN with_stress_increase(s) ELSE with_boss_decrease(s)

\* lines 181-182 and 195-196: while self._running: time.sleep(...) starts
LoopTest(t) ==
    /\ pc[t] = "test"
    /\ IF running
         THEN /\ pc' = [pc EXCEPT ![t] = "sleep"]
              /\ timer' = [timer EXCEPT ![t] = Interval(t)]
         ELSE /\ pc' = [pc EXCEPT ![t] = "done"]
              /\ UNCHANGED timer
    /\ stall' = [stall EXCEPT ![t] = 0]
    /\ returned' = NoReturn
    /\ UNCHANGED <<state, lock, running, config, locals, now, budget,
                   at_acquire, elapsed, base, decreased, seq_state, acq_order,
                   stop_sleepers, reset_fresh, quiet, at_call>>

\* a loop entering its block without waiting for the lock
LoopAcquireNoLock(t) ==
    /\ pc[t] = "sleep"
    /\ timer[t] = 0
    /\ lock' = t
    /\ acq_order' = Append(acq_order, t)
    /\ reset_fresh' = (reset_fresh /\ pc[t] = "gs_acquire")
    /\ pc' = [pc EXCEPT ![t] = "update"]
    /\ returned' = NoReturn
    /\ UNCHANGED <<state, running, config, locals, timer, now, budget,
                   at_acquire, elapsed, base, decreased, seq_state,
                   stop_sleepers, quiet, stall, at_call>>

\* lines 183 and 197: with self._lock, once time.sleep(...) has returned
LoopAcquire(t) ==
    /\ pc[t] = "sleep"
    /\ timer[t] = 0
    /\ Acquire(t)
    /\ pc' = [pc EXCEPT ![t] = "update"]
    /\ returned' = NoReturn
    /\ UNCHANGED <<state, running, config, locals, timer, now, budget,
                   at_acquire, elapsed, base, decreased, seq_state,
                   stop_sleepers, quiet, stall, at_call>>

\* a loop making up for an interval that went by while it waited for the lock
LoopUpdateCatchUp(t) ==
    /\ pc[t] = "update"
    /\ state' = IF stall[t] >= Interval(t)
                   THEN Decay(t, Decay(t, state))
                   ELSE Decay(t, state)
    /\ Release(t)
    /\ pc' = [pc EXCEPT ![t] = "test"]
    /\ NewWindow(state')
    /\ seq_state' = Decay(t, seq_state)
    /\ returned' = NoReturn
    /\ UNCHANGED <<running, config, locals, timer, now, budget, at_acquire,
                   elapsed, stop_sleepers, reset_fresh, stall, at_call>>
    /\ quiet' = IF t = StressThread /\ quiet.ticks >= 0
                  THEN [quiet EXCEPT !.ticks = Min(TickCap, @ + 1)]
                  ELSE quiet

\* lines 184 and 198: self._state = self._state.with_...(), and the lock is
\* released on the way out, back to the test of the flag
LoopUpdate(t) ==
    /\ pc[t] = "update"
    /\ state' = Decay(t, state)
    /\ Release(t)
    /\ pc' = [pc EXCEPT ![t] = "test"]
    /\ NewWindow(state')
    /\ seq_state' = Decay(t, seq_state)
    /\ returned' = NoReturn
    /\ UNCHANGED <<running, config, locals, timer, now, budget, at_acquire,
                   elapsed, stop_sleepers, reset_fresh, stall, at_call>>
    /\ quiet' = IF t = StressThread /\ quiet.ticks >= 0
                  THEN [quiet EXCEPT !.ticks = Min(TickCap, @ + 1)]
                  ELSE quiet

auto_increase_stress ==
    \/ LoopTest(StressThread)
    \/ LoopAcquire(StressThread)
    \/ LoopUpdate(StressThread)

auto_decrease_boss_alert ==
    \/ LoopTest(BossThread)
    \/ LoopAcquire(BossThread)
    \/ LoopUpdate(BossThread)

(* ---------------- time ------------------------------------------------- *)
\* the threads inside a time.sleep that has not run out
Sleepers == {t \in Threads : timer[t] > 0}

\* the callers between acquiring the lock in take_break and releasing it
Holding == {c \in Callers : at_acquire[c] # NoState}

\* d units of time pass for every thread inside a sleep
Pass(d) ==
    /\ timer' = [t \in Threads |->
                   IF t \in Sleepers THEN timer[t] - d ELSE timer[t]]
    /\ elapsed' = [c \in Callers |->
                     IF c \in Holding
                       THEN Min(BOSS_ALERT_DELAY, elapsed[c] + d)
                       ELSE elapsed[c]]
    /\ stall' = [t \in Loops |->
                   IF pc[t] = "sleep" /\ timer[t] = 0
                     THEN Min(BOSS_ALERT_DELAY, stall[t] + d)
                     ELSE stall[t]]
    /\ returned' = NoReturn
    /\ UNCHANGED <<state, lock, running, config, pc, locals, budget,
                   at_acquire, base, decreased, seq_state, acq_order,
                   stop_sleepers, reset_fresh, quiet, at_call>>

\* time passes until the earliest pending sleep runs out; the run is
\* followed while the clock reads at most budget.time
Tick ==
    /\ Sleepers # {}
    /\ LET d == SetMin({timer[t] : t \in Sleepers}) IN
         /\ now + d <= budget.time
         /\ now' = now + d
         /\ Pass(d)

\* the thread is inside an operation or a loop and can take its next step
\* at once: it is not asleep, and if it waits for the lock the lock is free
Ready(t) ==
    /\ pc[t] \notin {"idle", "done"}
    /\ timer[t] = 0
    /\ pc[t] \in {"tb_acquire", "gs_acquire", "rs_acquire", "sleep"} => lock = NoThread

\* the same, for runs without end: the reading of the clock stays at
\* budget.time once it is reached. A step of a thread takes no time next to
\* the sleeps of 20 and 60 seconds: no sleep runs out while a thread can step.
TickOn ==
    /\ Sleepers # {}
    /\ \A t \in Threads : ~Ready(t)
    /\ LET d == SetMin({timer[t] : t \in Sleepers}) IN
         /\ now' = Min(budget.time, now + d)
         /\ Pass(d)

(* ---------------- the system ------------------------------------------- *)
take_break(c, amounts) ==
    \/ \E amount \in amounts : TakeBreakCall(c, amount)
    \/ TbAcquire(c)
    \/ TbCheck(c)
    \/ TbCompute(c)
    \/ TbInstall(c)
    \/ TbReturn(c)

get_state(c) ==
    \/ GetStateCall(c)
    \/ GsAcquire(c)
    \/ GsReadStress(c)
    \/ GsReturn(c)

reset(c) ==
    \/ ResetCall(c)
    \/ RsAcquire(c)
    \/ RsInstall(c)

\* the steps of the threads when the callers pass amounts of the given set
Threadwise(amounts) ==
    \/ \E c \in Callers : take_break(c, amounts)
    \/ \E c \in Callers : get_state(c)
    \/ \E c \in Callers : reset(c)
    \/ \E c \in Callers : Stop(c)
    \/ auto_increase_stress
    \/ auto_decrease_boss_alert

NextWith(amounts) ==
    \/ Threadwise(amounts)
    \/ Tick

Next == NextWith(Amounts)

\* escalation is certain: the alert level climbs to its maximum and the
\* threshold delay is taken
Spec == Init /\ [][Next]_vars

NextMix == NextWith(MixAmounts)

\* escalation is impossible or even odds, with more amounts and fewer calls
SpecMix == InitMix /\ [][NextMix]_vars

\* escalation is certain, with enough calls left for a reset at alert level
\* 5 and a get_state after it
SpecReset == InitReset /\ [][Next]_vars

NextNeg == NextWith(NegAmounts)

\* a caller may pass a negative stress_decrease
SpecNeg == InitNeg /\ [][NextNeg]_vars

\* one transition function applied to a snapshot within the bounds, nothing
\* else moving
Apply(s) ==
    /\ InBounds(state)
    /\ state' = s
    /\ UNCHANGED <<lock, running, config, pc, locals, timer, now, budget,
                   returned, history>>

ApplyStressDecrease == \E amount \in PureAmounts :
                         Apply(with_stress_decrease(state, amount, now))
ApplyStressIncrease == Apply(with_stress_increase(state))
ApplyBossIncrease == Apply(with_boss_increase(state))
ApplyBossDecrease == Apply(with_boss_decrease(state))

NextPure ==
    \/ ApplyStressDecrease
    \/ ApplyStressIncrease
    \/ ApplyBossIncrease
    \/ ApplyBossDecrease

\* the four transition functions of State, applied in any order
SpecPure == InitPure /\ [][NextPure]_vars

NextLoops ==
    \/ auto_increase_stress
    \/ auto_decrease_boss_alert
    \/ Tick

\* the two loops alone, with no caller activity
SpecLoops == InitLoops /\ [][NextLoops]_vars

\* escalation is impossible or certain
SpecProb == InitProb /\ [][Next]_vars

\* the threads that read config: take_break reads config.boss_alertness and
\* the alert loop reads config.boss_alertness_cooldown
NextConfig ==
    \/ \E c \in Callers : take_break(c, Amounts)
    \/ auto_decrease_boss_alert
    \/ Tick

\* any command line, followed for a short run
SpecConfig == InitConfig /\ [][NextConfig]_vars

NextStall ==
    \/ \E c \in Callers : take_break(c, Amounts)
    \/ auto_increase_stress
    \/ auto_decrease_boss_alert
    \/ Tick

\* escalating take_break calls and the two loops, the alert loop with a
\* cooldown shorter than the threshold delay
SpecStall == InitStall /\ [][NextStall]_vars

NextHold ==
    \/ \E c \in Callers : take_break(c, Amounts)
    \/ \E c \in Callers : reset(c)
    \/ auto_increase_stress
    \/ auto_decrease_boss_alert
    \/ Tick

\* take_break calls that escalate or not, reset and the two loops
SpecHold == InitHold /\ [][NextHold]_vars

NextDir ==
    \/ \E c \in Callers : take_break(c, MixAmounts)
    \/ \E c \in Callers : reset(c)
    \/ auto_increase_stress
    \/ auto_decrease_boss_alert
    \/ Tick

\* the writers of the snapshot, with amounts that lower the stress level or
\* leave it, and calls that escalate or not
SpecDir == InitDir /\ [][NextDir]_vars

NextFair ==
    \/ Threadwise(FairAmounts)
    \/ TickOn

\* the steps a caller takes inside an operation it has invoked
Proceed(c) ==
    \/ TbAcquire(c) \/ TbCheck(c) \/ TbCompute(c) \/ TbInstall(c) \/ TbReturn(c)
    \/ GsAcquire(c) \/ GsReadStress(c) \/ GsReturn(c)
    \/ RsAcquire(c) \/ RsInstall(c)

\* what the interpreter and the clock give every thread: a thread that can
\* take its next step for good takes it, and time passes. The lock gives no
\* more: threading.Lock does not say which waiting thread gets it.
Fairness ==
    /\ \A c \in Callers : WF_vars(Proceed(c))
    /\ WF_vars(auto_increase_stress)
    /\ WF_vars(auto_decrease_boss_alert)
    /\ WF_vars(TickOn)

\* runs without end: a caller may poll get_state again and again
SpecFair == InitFair /\ [][NextFair]_vars /\ Fairness

(* ======================================================================= *)
(* The claims                                                              *)
(* ======================================================================= *)
\* the positions at which a thread is inside "with self._lock"
CriticalPcs ==
    {"tb_check", "tb_compute", "tb_install", "tb_return",
     "gs_stress", "gs_alert", "rs_install", "update"}

InCritical(t) == pc[t] \in CriticalPcs

\* the caller entered take_break's block while the alert level was at its maximum
Delayed(c) ==
    at_acquire[c] # NoState /\ at_acquire[c].boss_alert_level = BOSS_ALERT_MAX

(* ---------------- C1 ---------------------------------------------------- *)
\* C1: bounds invariant: after any interleaving of take_break (amount >= 0),
\* get_state, reset, stop and ticks of the two loops, the current snapshot has
\* 0 <= stress_level <= 100 and 0 <= boss_alert_level <= 5.
BoundsInvariant ==
    /\ STRESS_MIN <= state.stress_level
    /\ state.stress_level <= STRESS_MAX
    /\ BOSS_ALERT_MIN <= state.boss_alert_level
    /\ state.boss_alert_level <= BOSS_ALERT_MAX

\* the sixth take_break, which found stress 0 and alert 5 and was delayed,
\* has returned them unchanged: both clamps have acted
BoundsWitness ==
    /\ returned.op = "take_break"
    /\ returned.value = <<STRESS_MIN, BOSS_ALERT_MAX>>
    /\ budget.take_break = 0
    /\ now = BOSS_ALERT_DELAY

(* ---------------- C2 ---------------------------------------------------- *)
\* C2: no lost updates: the take_break calls issued by concurrent callers
\* since the last tick or reset, with amounts d_1..d_N from stress s0, leave
\* the stress at exactly max(0, s0 - (d_1 + ... + d_N)), in every interleaving.
NoLostUpdates ==
    state.stress_level = Max(STRESS_MIN, base - decreased)

\* with escalation impossible, two calls of 20 and 40 from stress 50 have left 0
NoLostUpdatesWitness ==
    /\ boss_alertness = 0
    /\ base = 50
    /\ decreased = 60
    /\ state.stress_level = 0
    /\ returned.op = "take_break"
    /\ \A c \in Callers : pc[c] = "idle"

(* ---------------- C3 ---------------------------------------------------- *)
\* C3: threshold delay: a take_break that enters its block with the alert
\* level at 5 does not install or return anything before the full delay has
\* passed, and from its acquiring the lock until its releasing it no other
\* thread is inside a block on the snapshot, which stays the one found at
\* acquisition until the call installs its own.
ThresholdDelay ==
    \A c \in Callers :
      Delayed(c) =>
        /\ pc[c] \in {"tb_install", "tb_return"} => elapsed[c] >= BOSS_ALERT_DELAY
        /\ pc[c] \in {"tb_check", "tb_compute", "tb_install"} => state = at_acquire[c]
        /\ \A t \in Threads \ {c} : ~InCritical(t)

\* a delayed take_break is about to return while the other caller's
\* get_state and both loops wait for the lock
ThresholdDelayWitness ==
    \E c \in Callers :
      /\ Delayed(c)
      /\ pc[c] = "tb_return"
      /\ \E d \in Callers \ {c} : pc[d] = "gs_acquire"
      /\ \A t \in Loops : pc[t] = "sleep" /\ timer[t] = 0

(* ---------------- C4 ---------------------------------------------------- *)
\* C4: mutual exclusion: at most one of the take_break, get_state and reset
\* calls and the two loops' iterations is inside its block at any time.
MutualExclusion ==
    Cardinality({t \in Threads : InCritical(t)}) <= 1

\* one caller is inside its block while the other caller and both loops wait
MutualExclusionWitness ==
    \E c \in Callers :
      /\ InCritical(c)
      /\ \E d \in Callers \ {c} : pc[d] \in {"tb_acquire", "gs_acquire", "rs_acquire"}
      /\ \A t \in Loops : pc[t] = "sleep" /\ timer[t] = 0

(* ---------------- C5 ---------------------------------------------------- *)
\* C5: result of take_break: for the snapshot (s, a) current when the lock
\* was acquired, every amount >= 0 and escalation decision e, the call
\* installs and returns (max(0, s - amount), min(5, a + 1) if e else a), the
\* counters of the snapshot that is current when the lock is released.
TakeBreakResult ==
    [][\A c \in Callers :
         (pc[c] = "tb_return" /\ pc'[c] = "idle") =>
           LET s == at_acquire[c].stress_level
               a == at_acquire[c].boss_alert_level
           IN /\ returned'.value =
                   <<Max(0, s - stress_decrease[c]),
                     IF boss_increase[c] THEN Min(5, a + 1) ELSE a>>
              /\ returned'.value =
                   <<state'.stress_level, state'.boss_alert_level>>]_vars

\* take_break(20) and take_break(40) from (50, 0), one of them escalating,
\* have ended with (0, 1) returned
TakeBreakResultWitness ==
    /\ returned.op = "take_break"
    /\ returned.value = <<0, 1>>
    /\ base = 50
    /\ decreased = 60

(* ---------------- C6 ---------------------------------------------------- *)
\* C6: snapshot consistency of reads: the pair get_state returns is the pair
\* of counters of one installed snapshot, the one current when it returns;
\* never a mix of two snapshots, nor a value a take_break has not installed.
ReadsOneSnapshot ==
    returned.op = "get_state" =>
      returned.value = <<state.stress_level, state.boss_alert_level>>

\* a get_state returns a pair a take_break installed, with the other caller's
\* take_break waiting for the lock
ReadsOneSnapshotWitness ==
    /\ returned.op = "get_state"
    /\ returned.value # <<50, 0>>
    /\ \E d \in Callers : pc[d] = "tb_acquire"

(* ---------------- C7 ---------------------------------------------------- *)
\* C7: get_state is read-only and never delays: none of its steps changes the
\* snapshot or the running flag, and it never sleeps, even at alert level 5.
GetStateReadOnly ==
    [][\A c \in Callers :
         (pc[c] \in {"gs_acquire", "gs_stress", "gs_alert"} /\ pc'[c] # pc[c]) =>
           /\ state' = state
           /\ running' = running
           /\ timer[c] = 0
           /\ timer'[c] = 0]_vars

\* a get_state has returned the pair of a snapshot whose alert level is 5
GetStateReadOnlyWitness ==
    /\ returned.op = "get_state"
    /\ returned.value[2] = BOSS_ALERT_MAX
    /\ state.boss_alert_level = BOSS_ALERT_MAX

(* ---------------- C8 ---------------------------------------------------- *)
\* C8: linearizability by lock order: the snapshot and every value returned
\* by take_break and get_state are those of running the same operations and
\* ticks one at a time, each as one step, in the order they got the lock.
Linearizable ==
    /\ lock = NoThread => state = seq_state
    /\ returned.op \in {"take_break", "get_state"} =>
         returned.value = <<seq_state.stress_level, seq_state.boss_alert_level>>
    /\ acq_order = IF lock = NoThread THEN <<>> ELSE <<lock>>

\* a get_state returns after a tick of the stress loop and a take_break(40)
LinearizableWitness ==
    /\ returned.op = "get_state"
    /\ returned.value[1] = 11
    /\ \E d \in Callers : pc[d] = "tb_acquire"

(* ---------------- C9 ---------------------------------------------------- *)
\* C9: no starvation: every invoked take_break, get_state and reset eventually
\* returns, and every running background loop whose sleep has ended
\* eventually applies its tick, however the other threads contend for the lock.
NoStarvation ==
    /\ \A c \in Callers : (pc[c] # "idle") ~> (pc[c] = "idle")
    /\ \A t \in Loops : (pc[t] = "sleep" /\ timer[t] = 0) ~> (pc[t] = "update")

(* ---------------- C10 --------------------------------------------------- *)
\* C10: once stop() has been called, a background loop whose current sleep
\* then completes exits without applying a further decay step.
StopPreventsTicks ==
    [][\A t \in Loops :
         t \in stop_sleepers => ~(pc[t] = "update" /\ pc'[t] = "test")]_vars

(* ---------------- C11 --------------------------------------------------- *)
\* the next step of a thread that is inside its block
Continue(t) == IF t \in Callers THEN Proceed(t) ELSE LoopUpdate(t)

\* C11: stop() cancels no work in progress: it can be called whoever holds
\* the lock, and its step changes nothing but the flag (snapshot, lock,
\* positions, sleeps and locals stay); after it, every thread inside a block
\* is asleep or can take its next step, and a take_break that was inside its
\* threshold delay returns only after the full delay, with the result it
\* installed.
StopCancelsNothing ==
    /\ [](\A c \in Callers : pc[c] = "idle" => ENABLED Stop(c))
    /\ [](~running =>
            \A t \in Threads : InCritical(t) => (timer[t] > 0 \/ ENABLED Continue(t)))
    /\ [][(running /\ ~running') =>
             /\ state' = state
             /\ lock' = lock
             /\ pc' = pc
             /\ timer' = timer
             /\ locals' = locals]_vars
    /\ [][\A c \in Callers \cap stop_sleepers :
             (pc[c] = "tb_return" /\ pc'[c] = "idle" /\ Delayed(c)) =>
               /\ elapsed[c] >= BOSS_ALERT_DELAY
               /\ returned'.value =
                    <<Max(0, at_acquire[c].stress_level - stress_decrease[c]),
                      BOSS_ALERT_MAX>>
               /\ returned'.value =
                    <<state'.stress_level, state'.boss_alert_level>>]_vars

\* a take_break that was inside its threshold delay when stop() ran has
\* returned, and a loop that was asleep then is still asleep
StopCancelsNothingWitness ==
    /\ ~running
    /\ returned.op = "take_break"
    /\ returned.by \in stop_sleepers
    /\ returned.value = <<STRESS_MIN, BOSS_ALERT_MAX>>
    /\ \E t \in Loops \cap stop_sleepers : timer[t] > 0

(* ---------------- C12 --------------------------------------------------- *)
\* C12: the engine starts with stress 50 and alert 0; reset(), from any
\* reachable state, installs exactly State(50, 0, now) while it holds the
\* lock, and never sleeps, also when the alert level was 5; a get_state that
\* takes the lock after a reset, with no take_break, reset or tick taking it
\* in between, returns (50, 0).
InitialAndReset ==
    /\ state.stress_level = 50 /\ state.boss_alert_level = 0
    /\ [](returned.op = "get_state" /\ reset_fresh => returned.value = <<50, 0>>)
    /\ [][\A c \in Callers :
            (pc[c] \in {"rs_acquire", "rs_install"} /\ pc'[c] # pc[c]) =>
              /\ timer[c] = 0
              /\ timer'[c] = 0
              /\ pc[c] = "rs_install" =>
                   /\ lock = c
                   /\ state' = State(50, 0, now)]_vars

\* five escalating take_break calls have raised the alert level to 5, a
\* reset has followed at once, and the get_state after it returns (50, 0)
InitialAndResetWitness ==
    /\ returned.op = "get_state"
    /\ returned.value = <<50, 0>>
    /\ reset_fresh
    /\ budget.take_break = 0
    /\ now = 0

(* ---------------- C13 --------------------------------------------------- *)
\* C13: a take_break called with a negative stress_decrease is rejected: none
\* of its steps changes the snapshot, and it hands back no result pair.
NegativeAmountRejected ==
    [][\A c \in Callers :
         (stress_decrease[c] < 0 /\ pc[c] # "idle" /\ pc'[c] # pc[c]) =>
           /\ state' = state
           /\ ~(returned'.op = "take_break" /\ returned'.by = c)]_vars

(* ---------------- C14 --------------------------------------------------- *)
\* C14: the transition functions are saturating for every input: applied to
\* a snapshot within bounds, with an amount of either sign, each of
\* with_stress_decrease, with_stress_increase, with_boss_increase and
\* with_boss_decrease returns a snapshot within bounds.
Saturating ==
    [][InBounds(state) => InBounds(state')]_vars

(* ---------------- C15 --------------------------------------------------- *)
\* C15: with no caller activity, after exactly N ticks of the stress loop from
\* stress s0 the stress level is min(100, s0 + N), whatever ticks of the
\* alert loop are interleaved with them.
StressDecayLoop ==
    (quiet.ticks >= 0 /\ quiet.ticks < TickCap) =>
      state.stress_level = Min(STRESS_MAX, quiet.from + quiet.ticks)

\* eleven ticks from stress 90 have left 100, while the alert loop has
\* brought the alert level down from 3 to 0
StressDecayLoopWitness ==
    /\ quiet = [from |-> 90, ticks |-> 11]
    /\ state.stress_level = STRESS_MAX
    /\ state.boss_alert_level = BOSS_ALERT_MIN

(* ---------------- C16 --------------------------------------------------- *)
\* C16: the escalation decision is true iff the integer drawn in 1..100 is at
\* most the configured probability: with probability 0 no take_break changes
\* the alert level, which never increases over the run; with probability 100
\* every take_break raises it by exactly 1 unless it is already 5.
ProbabilityBoundary ==
    /\ [](\A d \in Draws : d \in 1..100)
    /\ [][boss_alertness = 0 =>
             state'.boss_alert_level <= state.boss_alert_level]_vars
    /\ [][\A c \in Callers :
             (pc[c] = "tb_install" /\ pc'[c] = "tb_return") =>
               /\ (boss_alertness = 0 =>
                     state'.boss_alert_level = state.boss_alert_level)
               /\ (boss_alertness = 100 =>
                     state'.boss_alert_level =
                       Min(BOSS_ALERT_MAX, state.boss_alert_level + 1))]_vars

\* with probability 100, the sixth take_break has found the alert level at 5
\* and returned it unchanged
ProbabilityBoundaryWitness ==
    /\ boss_alertness = 100
    /\ returned.op = "take_break"
    /\ returned.value[2] = BOSS_ALERT_MAX
    /\ budget.take_break = 0

(* ---------------- C17 --------------------------------------------------- *)
\* C17: for every integer on the command line, the stored escalation
\* probability is the input brought into 0..100 (0 below, 100 above, the input
\* itself within) and the stored cooldown is the input raised to at least 1;
\* the two stored values never change after construction.
ConfigClamping ==
    /\ [](boss_alertness =
            IF args.boss_alertness < 0 THEN 0
            ELSE IF args.boss_alertness > 100 THEN 100
            ELSE args.boss_alertness)
    /\ [](boss_alertness_cooldown =
            IF args.boss_alertness_cooldown < 1 THEN 1
            ELSE args.boss_alertness_cooldown)
    /\ [][boss_alertness' = boss_alertness]_vars
    /\ [][boss_alertness_cooldown' = boss_alertness_cooldown]_vars

\* --boss_alertness -3 and --boss_alertness_cooldown -2 were stored as 0 and
\* 1, and a take_break and a tick of the alert loop have read them
ConfigClampingWitness ==
    /\ args = [boss_alertness |-> -3, boss_alertness_cooldown |-> -2]
    /\ boss_alertness = 0
    /\ boss_alertness_cooldown = 1
    /\ returned.op = "take_break"
    /\ now = ConfigTime

(* ---------------- C18 --------------------------------------------------- *)
\* C18: suspension points: a thread that sleeps while it holds the lock is a
\* take_break call that found the alert level at 5 when it acquired the lock;
\* the two loops sleep only while they do not hold it, and get_state and
\* reset never sleep.
SuspensionPoints ==
    /\ \A t \in Threads :
         (timer[t] > 0 /\ lock = t) =>
           /\ t \in Callers
           /\ pc[t] = "tb_compute"
           /\ Delayed(t)
    /\ \A t \in Loops : timer[t] > 0 => (pc[t] = "sleep" /\ lock # t)
    /\ \A c \in Callers :
         pc[c] \in {"gs_acquire", "gs_stress", "gs_alert", "rs_acquire", "rs_install"}
           => timer[c] = 0

\* a take_break sleeps in its threshold delay holding the lock, both loops
\* sleep without it, and the other caller's get_state waits for it
SuspensionPointsWitness ==
    \E c \in Callers :
      /\ lock = c
      /\ timer[c] > 0
      /\ \A t \in Loops : timer[t] > 0
      /\ \E d \in Callers \ {c} : pc[d] = "gs_acquire"

(* ---------------- C19 --------------------------------------------------- *)
\* C19: ticks are neither queued nor coalesced: a loop enters its block only
\* from a sleep that has run out, applies exactly one decay step there (stress
\* up by one, capped at 100, or alert down by one, floored at 0) however long
\* it has waited for the lock, changes the snapshot at no other step, and then
\* starts a fresh full sleep.
NoCatchUp ==
    [][\A t \in Loops :
         /\ ((pc[t] # "update" /\ pc'[t] = "update") =>
               (pc[t] = "sleep" /\ timer[t] = 0))
         /\ ((pc[t] = "update" /\ pc'[t] # "update") =>
               (/\ pc'[t] = "test"
                /\ state'.last_activity_time = state.last_activity_time
                /\ (t = StressThread =>
                      /\ state'.stress_level =
                           (IF state.stress_level < 100
                              THEN state.stress_level + 1 ELSE 100)
                      /\ state'.boss_alert_level = state.boss_alert_level)
                /\ (t = BossThread =>
                      /\ state'.boss_alert_level =
                           (IF state.boss_alert_level > 0
                              THEN state.boss_alert_level - 1 ELSE 0)
                      /\ state'.stress_level = state.stress_level)))
         /\ ((pc[t] # "update" /\ pc'[t] # pc[t]) => state' = state)
         /\ ((pc[t] = "test" /\ pc'[t] = "sleep") =>
               timer'[t] = (IF t = StressThread THEN 60
                                                ELSE boss_alertness_cooldown))]_vars

\* the alert loop, whose sleep of 10 ended while the sixth take_break was in
\* its threshold delay, has waited for a whole interval or more and applied
\* one step to the alert level 5 that call installed
NoCatchUpWitness ==
    /\ pc[BossThread] = "test"
    /\ stall[BossThread] >= boss_alertness_cooldown
    /\ state.boss_alert_level = BOSS_ALERT_MAX - 1
    /\ state.stress_level = STRESS_MIN
    /\ budget.take_break = 0
    /\ now = BOSS_ALERT_DELAY

(* ---------------- C20 --------------------------------------------------- *)
\* C20: last_activity_time is changed only by the install step of take_break
\* and by reset; take_break installs the time it read when it computed the new
\* snapshot, with or without the alert escalation, and reset installs the
\* current time; a tick of either loop and every step of get_state leave it as
\* it was; so it never goes down and never runs ahead of the clock.
ActivityTimeFrame ==
    /\ [][(state'.last_activity_time # state.last_activity_time) =>
            (\E c \in Callers :
               \/ (pc[c] = "tb_install" /\ pc'[c] = "tb_return")
               \/ (pc[c] = "rs_install" /\ pc'[c] = "idle"))]_vars
    /\ [][\A c \in Callers :
            (pc[c] = "tb_compute" /\ pc'[c] = "tb_install") =>
               new_state'[c].last_activity_time = now]_vars
    /\ [][\A c \in Callers :
            (pc[c] = "tb_install" /\ pc'[c] = "tb_return") =>
               state'.last_activity_time = new_state[c].last_activity_time]_vars
    /\ [][\A c \in Callers :
            (pc[c] = "rs_install" /\ pc'[c] = "idle") =>
               state'.last_activity_time = now]_vars
    /\ [][\A t \in Loops :
            (pc[t] = "update" /\ pc'[t] = "test") =>
               state'.last_activity_time = state.last_activity_time]_vars
    /\ [][\A c \in Callers :
            (pc[c] \in {"gs_acquire", "gs_stress", "gs_alert"}
               /\ pc'[c] # pc[c]) =>
               state'.last_activity_time = state.last_activity_time]_vars
    /\ [][state'.last_activity_time >= state.last_activity_time]_vars
    /\ [](state.last_activity_time <= now)

\* the sixth take_break, escalating or not, stamped the snapshot at the end of
\* its threshold delay; forty units later both loops have ticked and the stamp
\* is still the one that call installed
ActivityTimeFrameWitness ==
    /\ state.last_activity_time = BOSS_ALERT_DELAY
    /\ now = STRESS_INCREASE_INTERVAL
    /\ state.stress_level = STRESS_MIN + 1
    /\ state.boss_alert_level = BOSS_ALERT_MAX - 1
    /\ \A t \in Loops : pc[t] = "test"
    /\ budget.take_break = 0

(* ---------------- C21 --------------------------------------------------- *)
\* C21: the delay is decided on the alert level found when the lock was
\* acquired, before the new snapshot is computed: a take_break past line 221
\* sleeps, or has slept the whole delay, if it found 5, and has no sleep
\* running at any position if it found less (so the call that raises 4 to 5
\* does not sleep, nor does one invoked at 5 that acquires the lock after the
\* alert loop lowered it); no caller sleeps anywhere else, and nothing has
\* been computed while the decision is pending or the sleep is running.
DelayDecision ==
    \A c \in Callers :
      /\ (pc[c] \in {"tb_compute", "tb_install", "tb_return"} /\ Delayed(c)) =>
           (timer[c] > 0 \/ elapsed[c] >= BOSS_ALERT_DELAY)
      /\ (at_acquire[c] # NoState /\ ~Delayed(c)) => timer[c] = 0
      /\ (timer[c] > 0) => pc[c] = "tb_compute"
      /\ (pc[c] \in {"tb_acquire", "tb_check", "tb_compute"}) =>
           new_state[c] = NoState

\* the sixth take_break was invoked while the alert level was 5, acquired
\* the lock after the alert loop had lowered it to 4, and goes on to compute
\* with no sleep
DelayDecisionWitness ==
    \E c \in Callers :
      /\ at_call[c]
      /\ pc[c] = "tb_compute"
      /\ at_acquire[c].boss_alert_level = BOSS_ALERT_MAX - 1
      /\ timer[c] = 0
      /\ now = STRESS_INCREASE_INTERVAL

(* ---------------- C22 --------------------------------------------------- *)
\* C22: a take_break that acquired the lock at alert level 5 returns alert
\* level 5, whether it escalated or not; the alert level leaves 5 only by a
\* tick of the alert loop or by a reset; and every take_break that acquired
\* the lock at 5 starts the full sleep at line 222.
AlertHeldAtMax ==
    /\ [][\A c \in Callers :
            (pc[c] = "tb_return" /\ pc'[c] = "idle" /\ Delayed(c)) =>
               (returned'.by = c /\ returned'.value[2] = BOSS_ALERT_MAX)]_vars
    /\ [][(state.boss_alert_level = BOSS_ALERT_MAX
             /\ state'.boss_alert_level # BOSS_ALERT_MAX) =>
            (\/ (pc[BossThread] = "update" /\ pc'[BossThread] = "test")
             \/ (\E c \in Callers : pc[c] = "rs_install" /\ pc'[c] = "idle"))]_vars
    /\ [][\A c \in Callers :
            (pc[c] = "tb_check" /\ pc'[c] = "tb_compute"
               /\ at_acquire[c].boss_alert_level = BOSS_ALERT_MAX) =>
               timer'[c] = BOSS_ALERT_DELAY]_vars

\* a take_break that found the alert level at 5, slept the whole delay and
\* did not escalate has installed its snapshot, still at 5, and is about to
\* return
AlertHeldAtMaxWitness ==
    \E c \in Callers :
      /\ Delayed(c)
      /\ pc[c] = "tb_return"
      /\ ~boss_increase[c]
      /\ elapsed[c] >= BOSS_ALERT_DELAY
      /\ state.boss_alert_level = BOSS_ALERT_MAX

(* ---------------- C23 --------------------------------------------------- *)
\* C23: once stop() has been called the flag stays off; a loop that tests it
\* then terminates and stays terminated, so each loop applies at most one
\* further decay step, the one of the iteration it was in; a stopped loop
\* whose sleep has run out eventually terminates; and once both loops have
\* terminated only the install steps of take_break and reset change the
\* snapshot.
LoopsTerminate ==
    /\ [][(~running) => (~running')]_vars
    /\ [][\A t \in Loops :
            (~running /\ pc[t] = "test" /\ pc'[t] # "test") =>
               pc'[t] = "done"]_vars
    /\ [][\A t \in Loops :
            (pc[t] = "update" /\ pc'[t] # "update") => pc'[t] = "test"]_vars
    /\ [][\A t \in Loops : (pc[t] = "done") => (pc'[t] = "done")]_vars
    /\ [][((\A t \in Loops : pc[t] = "done") /\ state' # state) =>
            (\E c \in Callers :
               \/ (pc[c] = "tb_install" /\ pc'[c] = "tb_return")
               \/ (pc[c] = "rs_install" /\ pc'[c] = "idle"))]_vars
    /\ \A t \in Loops : (~running /\ timer[t] = 0) ~> (pc[t] = "done")

(* ---------------- C24 --------------------------------------------------- *)
\* C24: with amounts >= 0, the install of a take_break leaves the stress level
\* as it was or lower and the alert level as it was or one higher; a tick of
\* the stress loop leaves the stress level as it was or one higher and the
\* alert level as it was; a tick of the alert loop leaves the alert level as
\* it was or one lower and the stress level as it was; so the stress level
\* rises only by a tick of the stress loop or a reset, and the alert level
\* falls only by a tick of the alert loop or a reset.
WriterDirections ==
    /\ [][\A c \in Callers :
            (pc[c] = "tb_install" /\ pc'[c] = "tb_return") =>
               (/\ state'.stress_level <= state.stress_level
                /\ state'.boss_alert_level >= state.boss_alert_level
                /\ state'.boss_alert_level <= state.boss_alert_level + 1)]_vars
    /\ [][(pc[StressThread] = "update" /\ pc'[StressThread] = "test") =>
            (/\ state'.stress_level >= state.stress_level
             /\ state'.stress_level <= state.stress_level + 1
             /\ state'.boss_alert_level = state.boss_alert_level)]_vars
    /\ [][(pc[BossThread] = "update" /\ pc'[BossThread] = "test") =>
            (/\ state'.boss_alert_level <= state.boss_alert_level
             /\ state'.boss_alert_level >= state.boss_alert_level - 1
             /\ state'.stress_level = state.stress_level)]_vars
    /\ [][(state'.stress_level > state.stress_level) =>
            (\/ (pc[StressThread] = "update" /\ pc'[StressThread] = "test")
             \/ (\E c \in Callers : pc[c] = "rs_install" /\ pc'[c] = "idle"))]_vars
    /\ [][(state'.boss_alert_level < state.boss_alert_level) =>
            (\/ (pc[BossThread] = "update" /\ pc'[BossThread] = "test")
             \/ (\E c \in Callers : pc[c] = "rs_install" /\ pc'[c] = "idle"))]_vars

\* three take_break calls, two of which escalated, took the snapshot from
\* (50, 0) to (10, 2), and one tick of each loop has brought it to (11, 1)
WriterDirectionsWitness ==
    /\ state.stress_level = 11
    /\ state.boss_alert_level = 1
    /\ budget.take_break = 0
    /\ now = STRESS_INCREASE_INTERVAL
    /\ \A t \in Loops : pc[t] = "test"
    /\ \A c \in Callers : pc[c] = "idle"

(* ---------------- C25 --------------------------------------------------- *)
\* C25: a thread holds the lock exactly while it is inside its block, so every
\* block releases the lock on leaving and no thread waits for a lock it holds;
\* the holder of the lock is inside a sleep with time left or can take its
\* next step; a thread waiting for a free lock can take it; and when no
\* caller is inside an operation and no loop inside its block, the lock is
\* free.
NoDeadlock ==
    /\ \A t \in Threads : (lock = t) <=> InCritical(t)
    /\ \A t \in Threads :
         (lock = t) => (timer[t] > 0 \/ ENABLED Continue(t))
    /\ \A c \in Callers :
         (lock = NoThread /\ pc[c] \in {"tb_acquire", "gs_acquire", "rs_acquire"})
           => ENABLED Proceed(c)
    /\ \A t \in Loops :
         (lock = NoThread /\ pc[t] = "sleep" /\ timer[t] = 0)
           => ENABLED LoopAcquire(t)
    /\ ((\A c \in Callers : pc[c] = "idle")
          /\ (\A t \in Loops : pc[t] # "update")) => lock = NoThread

\* six take_break calls, the last one with the threshold delay, a get_state
\* and then a tick of each loop have gone through the lock, which is free
\* again with every caller idle
NoDeadlockWitness ==
    /\ lock = NoThread
    /\ \A c \in Callers : pc[c] = "idle"
    /\ budget.take_break = 0
    /\ budget.other = 0
    /\ state.stress_level = STRESS_MIN + 1
    /\ state.boss_alert_level = BOSS_ALERT_MAX - 1
    /\ now = STRESS_INCREASE_INTERVAL
    /\ \A t \in Loops : pc[t] = "test"

====
